---- MODULE Spec2Model ----
(***************************************************************************)
(* RW Outage App (RW_Outage_app.py): the outage log, its validation        *)
(* functions, the Log Outage / Edit Records handlers and the availability  *)
(* aggregation.                                                            *)
(*                                                                         *)
(* Times of day are minutes since midnight (the time inputs have step=60   *)
(* seconds, so every time is a whole minute).  A date is <<year, month,    *)
(* day>>; NaT stands for a date that pd.to_datetime(errors="coerce")      *)
(* could not parse.  A record of the log carries the columns Date, Start   *)
(* Time, End Time, Downtime (minutes), Downtime (hh:mm) and Failure Type;  *)
(* the free-text Remarks column takes part in no computation and is left   *)
(* out.                                                                    *)
(***************************************************************************)
EXTENDS Integers, Sequences, FiniteSets, TLC

VARIABLES
    df,        \* the log as load_data() returns it to the running script
    file,      \* the "Downtime Log" sheet of RW_Outage.xlsx, as last written
    lastOp,    \* the handler that ran last: "none", "add", "edit", "delete"
    lastMsg,   \* the message that handler showed (st.error / st.success)
    lastFailed,\* history: the validation rules the submitted input broke
    inp,       \* SpecFn, SpecEdit: the arguments of the call or of the handler run
    out,       \* SpecFn: the function applied and what it returned;
               \* SpecSummary: what the sidebar or the View Summary page showed
    today,     \* datetime.now().date()
    summary,   \* SpecSummary, SpecCache: what build_comprehensive_summary returned
    cache,     \* the st.cache_data entries of build_comprehensive_summary
    loaded,    \* the st.cache_data entry of load_data
    session    \* st.session_state: the keys "password_correct" and "password"

vars == <<df, file, lastOp, lastMsg, lastFailed, inp, out, today, summary, cache,
          loaded, session>>

----------------------------------------------------------------------------
(* Bounds of the model *)

\* largest number of records the log holds in Spec
MaxLog == 2
\* largest number of existing records handed to the functions in SpecFn
MaxExisting == 2

\* absent widget values (None): a date, a time; an unused history value
NoDate == <<-1, -1, -1>>
NoTime == -1
\* unparseable date
NaT == <<0, 0, 0>>

\* times of day offered to the forms: 04:00, 04:30, 10:00, 22:00, 22:30
Times == {240, 270, 600, 1320, 1350}
AppDates == {<<2024, 2, 15>>, <<2025, 3, 1>>}
FailureTypes == {"Power"}
\* the day the application runs
AppToday == <<2024, 6, 30>>

----------------------------------------------------------------------------
(* Messages of the handlers *)

MsgNone == ""
MsgDate == "Date is required"
MsgStart == "Start time is required"
MsgEnd == "End time is required"
MsgType == "Failure type is required"
MsgChrono == "End time must be after start time"
MsgWindow == "Times must be within broadcast hours (4:30 AM - 10:00 PM)"
MsgDup == "Duplicate Entry: An outage record already exists for this date and time period."
MsgCreated == "New outage record has been created successfully."
MsgUpdated == "Record has been updated successfully."
MsgDeleted == "Record has been deleted successfully."
MsgSaveFailedAdd == "Unable to save outage record. Please verify your input and try again."
MsgSaveFailedEdit == "Unable to update record. Please check your input and try again."
MsgSaveFailedDelete == "Unable to delete record. Please try again."

----------------------------------------------------------------------------
(* Validation functions *)

\* broadcast_start = 4 * 60 + 30, broadcast_end = 22 * 60
broadcast_start == 4 * 60 + 30
broadcast_end == 22 * 60

\* variant: the window is tested before the chronology
validate_time_input_WindowFirst(start_time, end_time) ==
    IF start_time < broadcast_start \/ end_time > broadcast_end
    THEN <<FALSE, MsgWindow>>
    ELSE IF end_time <= start_time
         THEN <<FALSE, MsgChrono>>
         ELSE <<TRUE, MsgNone>>

\* variant: only the start is held against the window
validate_time_input_StartOnly(start_time, end_time) ==
    IF end_time <= start_time
    THEN <<FALSE, MsgChrono>>
    ELSE IF start_time < broadcast_start
         THEN <<FALSE, MsgWindow>>
         ELSE <<TRUE, MsgNone>>

\* variant: an outage may not end at 22:00 sharp
validate_time_input_StrictEnd(start_time, end_time) ==
    IF end_time <= start_time
    THEN <<FALSE, MsgChrono>>
    ELSE IF start_time < broadcast_start \/ end_time >= broadcast_end
         THEN <<FALSE, MsgWindow>>
         ELSE <<TRUE, MsgNone>>

\* validate_time_input(start_time, end_time, date) -> (bool, str)
validate_time_input(start_time, end_time) ==
    IF end_time <= start_time
    THEN <<FALSE, MsgChrono>>
    ELSE IF start_time < broadcast_start \/ end_time > broadcast_end
         THEN <<FALSE, MsgWindow>>
         ELSE <<TRUE, MsgNone>>

\* validate_required_fields(date, start_time, end_time, failure_type)
validate_required_fields(date, start_time, end_time, failure_type) ==
    IF date = NoDate THEN <<FALSE, MsgDate>>
    ELSE IF start_time = NoTime THEN <<FALSE, MsgStart>>
    ELSE IF end_time = NoTime THEN <<FALSE, MsgEnd>>
    ELSE IF failure_type = "" THEN <<FALSE, MsgType>>
    ELSE <<TRUE, MsgNone>>

\* variant: intervals that only touch count as overlapping
check_duplicate_entry_Inclusive(d, date, start_time, end_time) ==
    \E i \in 1..Len(d) :
        /\ d[i].date = date
        /\ start_time <= d[i].end
        /\ end_time >= d[i].start

\* check_duplicate_entry(df, date, start_time, end_time) -> bool
check_duplicate_entry(d, date, start_time, end_time) ==
    IF Len(d) = 0
    THEN FALSE
    ELSE \E i \in 1..Len(d) :
            /\ d[i].date = date
            /\ start_time < d[i].end
            /\ end_time > d[i].start

----------------------------------------------------------------------------
(* Persistence *)

DateKey(date) == date[1] * 10000 + date[2] * 100 + date[3]

\* place r after every record dated r.date or later (NaT goes last)
RECURSIVE InsertDesc(_, _)
InsertDesc(s, r) ==
    IF s = <<>> THEN <<r>>
    ELSE IF DateKey(Head(s).date) >= DateKey(r.date) \/ r.date = NaT
         THEN <<Head(s)>> \o InsertDesc(Tail(s), r)
         ELSE <<r>> \o s

\* df.sort_values('Date', ascending=False).reset_index(drop=True)
RECURSIVE SortDesc(_)
SortDesc(s) ==
    IF s = <<>> THEN <<>>
    ELSE InsertDesc(SortDesc(SubSeq(s, 1, Len(s) - 1)), s[Len(s)])

\* load_data(): read the sheet, coerce the dates, newest first
load_data(sheet) == SortDesc(sheet)

\* @st.cache_data(ttl=600) on load_data, which has no arguments: the cache
\* holds at most one entry, the frame the function returned
NoLoad == [hit |-> FALSE]
Entry(d) == [hit |-> TRUE, res |-> d]
\* a call load_data() with the cache entry e and the sheet as it is on disk
cached_load_data(e, sheet) == IF e.hit THEN e.res ELSE load_data(sheet)

\* variant: the entry is kept
load_data_clear_Keep(e) == e

\* load_data.clear()
load_data_clear(e) == NoLoad

----------------------------------------------------------------------------
(* Authentication *)

\* st.session_state: a key that is not set has the value "absent"
NoSession == [password_correct |-> "absent", password |-> "absent"]
\* the session after the correct password was entered
SignedIn == [password_correct |-> "true", password |-> "absent"]

\* variant: the gate opens as soon as the key password_correct is set
check_password_AnyEntry(ss) == ss.password_correct # "absent"

\* check_password(): st.session_state.get("password_correct", False); when
\* it is not True the script shows the password input and stops
check_password(ss) == ss.password_correct = "true"

\* password_entered(), the on_change callback of the password input
password_entered(ss) ==
    IF ss.password = "technical"
    THEN [password_correct |-> "true", password |-> "absent"]
    ELSE [ss EXCEPT !.password_correct = "false"]

\* the error check_password() shows under the password input
MsgPasswordIncorrect == "Password incorrect"
GateMsg(ss) ==
    IF ~check_password(ss) /\ ss.password_correct # "absent" THEN MsgPasswordIncorrect
    ELSE MsgNone

----------------------------------------------------------------------------
(* Handlers *)

\* int((end_dt - start_dt).total_seconds() / 60)
Downtime(start_time, end_time) == end_time - start_time
\* hours, minutes = divmod(downtime_minutes, 60)
DowntimeStr(m) == <<m \div 60, m % 60>>

\* new_record = {"Date": date, "Start Time": start_time, ...}
NewRecord(date, start_time, end_time, failure_type) ==
    [date  |-> date,
     start |-> start_time,
     end   |-> end_time,
     mins  |-> Downtime(start_time, end_time),
     hhmm  |-> DowntimeStr(Downtime(start_time, end_time)),
     ftype |-> failure_type]

\* message of the Log Outage form for a submission
LogOutageMsg(d, date, s, e, t) ==
    LET req == validate_required_fields(date, s, e, t) IN
    IF ~req[1] THEN req[2]
    ELSE LET tv == validate_time_input(s, e) IN
         IF ~tv[1] THEN tv[2]
         ELSE IF check_duplicate_entry(d, date, s, e) THEN MsgDup
              ELSE MsgCreated

\* message of the Edit Records form for a submission
EditMsg(d, date, s, e, t) ==
    LET req == validate_required_fields(date, s, e, t) IN
    IF ~req[1] THEN req[2]
    ELSE LET tv == validate_time_input(s, e) IN
         IF ~tv[1] THEN tv[2]
         ELSE MsgUpdated

\* the "if submitted:" block of the Log Outage form run on the log d: the
\* message shown, the log the script holds afterwards, and whether save_data
\* was reached
LogOutageRun(d, date, s, e, t) ==
    LET msg == LogOutageMsg(d, date, s, e, t) IN
    IF msg = MsgCreated
    THEN [msg |-> msg, df |-> Append(d, NewRecord(date, s, e, t)), save |-> TRUE]
    ELSE [msg |-> msg, df |-> d, save |-> FALSE]

\* variant: the row is written before the input is validated
EditRun_UpdateFirst(d, i, date, s, e, t) ==
    LET msg == EditMsg(d, date, s, e, t)
        upd == [d EXCEPT ![i] = [date  |-> date,
                                 start |-> s,
                                 end   |-> e,
                                 mins  |-> Downtime(s, e),
                                 hhmm  |-> DowntimeStr(Downtime(s, e)),
                                 ftype |-> t]]
    IN  [msg |-> msg, df |-> upd, save |-> msg = MsgUpdated]

\* variant: the times are written and the downtime columns are left as they were
EditRun_StaleMins(d, i, date, s, e, t) ==
    LET msg == EditMsg(d, date, s, e, t) IN
    IF msg = MsgUpdated
    THEN [msg  |-> msg,
          df   |-> [d EXCEPT ![i] = [date  |-> date,
                                     start |-> s,
                                     end   |-> e,
                                     mins  |-> d[i].mins,
                                     hhmm  |-> d[i].hhmm,
                                     ftype |-> t]],
          save |-> TRUE]
    ELSE [msg |-> msg, df |-> d, save |-> FALSE]

\* the "if submitted:" block of the Edit Records form run on row i of the log d
EditRun(d, i, date, s, e, t) ==
    LET msg == EditMsg(d, date, s, e, t) IN
    IF msg = MsgUpdated
    THEN [msg  |-> msg,
          df   |-> [d EXCEPT ![i] = [date  |-> date,
                                     start |-> s,
                                     end   |-> e,
                                     mins  |-> Downtime(s, e),
                                     hhmm  |-> DowntimeStr(Downtime(s, e)),
                                     ftype |-> t]],
          save |-> TRUE]
    ELSE [msg |-> msg, df |-> d, save |-> FALSE]

\* df.drop(actual_index).reset_index(drop=True)
Drop(d, i) == [k \in 1..(Len(d) - 1) |-> IF k < i THEN d[k] ELSE d[k + 1]]

\* save_data(df) and the rerun that follows it: the sheet is rewritten, the
\* cache of load_data is cleared and the script loads the log again; when the
\* workbook cannot be written nothing changes
save_data(newdf, ok, okMsg, failMsg) ==
    IF ok
    THEN /\ file' = newdf
         /\ df' = cached_load_data(load_data_clear(loaded), newdf)
         /\ loaded' = Entry(cached_load_data(load_data_clear(loaded), newdf))
         /\ lastMsg' = okMsg
    ELSE /\ lastMsg' = failMsg
         /\ UNCHANGED <<df, file, loaded>>

\* history: the validation rules of the data model that a submission breaks
\* (skip is the row being edited, 0 for a new record)
Missing(date, s, e, t) == date = NoDate \/ s = NoTime \/ e = NoTime \/ t = ""
Intersects(s, e, r) == s < r.end /\ e > r.start
Failed(d, skip, date, s, e, t) ==
    (IF Missing(date, s, e, t) THEN {"required"} ELSE {})
    \cup (IF s # NoTime /\ e # NoTime /\ ~(e > s) THEN {"chronology"} ELSE {})
    \cup (IF (s # NoTime /\ s < 270) \/ (e # NoTime /\ e > 1320)
          THEN {"window"} ELSE {})
    \cup (IF /\ date # NoDate /\ s # NoTime /\ e # NoTime
             /\ \E k \in 1..Len(d) :
                   k # skip /\ d[k].date = date /\ Intersects(s, e, d[k])
          THEN {"overlap"} ELSE {})

\* "Save Outage" pressed on the Log Outage page
LogOutage(date, s, e, t, ok) ==
    /\ check_password(session)
    /\ Len(df) < MaxLog
    /\ lastOp' = "add"
    /\ lastFailed' = Failed(df, 0, date, s, e, t)
    /\ LET run == LogOutageRun(df, date, s, e, t) IN
       IF run.save
       THEN save_data(run.df, ok, run.msg, MsgSaveFailedAdd)
       ELSE /\ ok
            /\ lastMsg' = run.msg
            /\ df' = run.df
            /\ file' = file
            /\ loaded' = loaded
    /\ UNCHANGED <<out, today, summary, cache, session>>

\* "Update Record" pressed on the Edit Records page, row i selected
EditRecord(i, date, s, e, t, ok) ==
    /\ check_password(session)
    /\ i \in 1..Len(df)
    /\ lastOp' = "edit"
    /\ lastFailed' = Failed(df, i, date, s, e, t)
    /\ LET run == EditRun(df, i, date, s, e, t) IN
       IF run.save
       THEN save_data(run.df, ok, run.msg, MsgSaveFailedEdit)
       ELSE /\ ok
            /\ lastMsg' = run.msg
            /\ df' = run.df
            /\ file' = file
            /\ loaded' = loaded
    /\ UNCHANGED <<out, today, summary, cache, session>>

\* "Confirm Delete" pressed on the Edit Records page, row i selected
DeleteRecord(i, ok) ==
    /\ check_password(session)
    /\ i \in 1..Len(df)
    /\ lastOp' = "delete"
    /\ lastFailed' = {}
    /\ save_data(Drop(df, i), ok, MsgDeleted, MsgSaveFailedDelete)
    /\ UNCHANGED <<out, today, summary, cache, session>>

----------------------------------------------------------------------------
(* The application *)

DateInputs == AppDates \cup {NoDate}
TimeInputs == Times \cup {NoTime}
TypeInputs == FailureTypes \cup {""}

\* the submissions tried: every complete form, and the forms with fields
\* missing whose remaining fields break the later rules as well
Inputs ==
    {x \in DateInputs \X TimeInputs \X TimeInputs \X TypeInputs :
        Missing(x[1], x[2], x[3], x[4]) =>
            /\ x[1] \in {NoDate, <<2024, 2, 15>>}
            /\ x[2] \in {NoTime, 1350}
            /\ x[3] \in {NoTime, 240}}

NoInput == [fn |-> "none"]
\* nothing cached
NoEntry == {}

Init ==
    /\ df = <<>>
    /\ file = <<>>
    /\ lastOp = "none"
    /\ lastMsg = MsgNone
    /\ lastFailed = {}
    /\ inp = NoInput
    /\ out = NoInput
    /\ today = AppToday
    /\ summary = NoInput
    /\ cache = NoEntry
    /\ loaded = Entry(df)
    /\ session = SignedIn

\* the year and month filters of the sidebar stay at "All", so the row index
\* entered on the Edit Records page is the row of the log
Next ==
    \/ \E x \in Inputs, ok \in BOOLEAN :
          LogOutage(x[1], x[2], x[3], x[4], ok) /\ UNCHANGED inp
    \/ \E i \in 1..MaxLog, x \in Inputs, ok \in BOOLEAN :
          EditRecord(i, x[1], x[2], x[3], x[4], ok) /\ UNCHANGED inp
    \/ \E i \in 1..MaxLog, ok \in BOOLEAN : DeleteRecord(i, ok) /\ UNCHANGED inp

Spec == Init /\ [][Next]_vars

----------------------------------------------------------------------------
(* The application with the cache of load_data over time (SpecLoad) *)

\* a run of the script without a submission: df = load_data()
Rerun ==
    /\ check_password(session)
    /\ df' = cached_load_data(loaded, file)
    /\ loaded' = Entry(cached_load_data(loaded, file))
    /\ UNCHANGED <<file, lastOp, lastMsg, lastFailed, inp, out, today, summary,
                   cache, session>>

\* the entry of load_data is 600 seconds old and is dropped
LoadDataExpires ==
    /\ loaded.hit
    /\ loaded' = NoLoad
    /\ UNCHANGED <<df, file, lastOp, lastMsg, lastFailed, inp, out, today, summary,
                   cache, session>>

NextLoad ==
    \/ Next
    \/ Rerun
    \/ LoadDataExpires

SpecLoad == Init /\ [][NextLoad]_vars

----------------------------------------------------------------------------
(* The Edit Records page with the sidebar filters (SpecEdit) *)

\* "Filter by Year" and "Filter by Month": 0 stands for "All", a month for
\* its name
YearFilters == {0, 2024, 2025}
MonthFilters == {0, 2, 3}

\* variant: the month filter is not applied
FilteredIndex_YearOnly(d, year_filter, month_filter) ==
    SelectSeq([k \in 1..Len(d) |-> k],
              LAMBDA k : year_filter = 0 \/ d[k].date[1] = year_filter)

\* filtered_df.index: the index labels of the rows of df that pass the filters
FilteredIndex(d, year_filter, month_filter) ==
    SelectSeq([k \in 1..Len(d) |-> k],
              LAMBDA k : /\ year_filter = 0 \/ d[k].date[1] = year_filter
                         /\ month_filter = 0 \/ d[k].date[2] = month_filter)

\* variant: the row index entered is taken as a row of the full log
actual_index_Positional(d, year_filter, month_filter, record_index) == record_index + 1

\* actual_index = df.index[df.index == filtered_df.index[record_index]].tolist()[0]
\* (record_index counts from 0, the rows of the model from 1)
actual_index(d, year_filter, month_filter, record_index) ==
    FilteredIndex(d, year_filter, month_filter)[record_index + 1]

\* the logs the page is opened on, as load_data returns them
EditTimes == {<<270, 600>>, <<600, 1320>>}
EditRecords == {NewRecord(d, x[1], x[2], "Power") : d \in AppDates, x \in EditTimes}
EditLogs == {d \in UNION {[1..n -> EditRecords] : n \in 1..MaxLog} : d = load_data(d)}

InitEdit ==
    /\ df \in EditLogs
    /\ file = df
    /\ lastOp = "none"
    /\ lastMsg = MsgNone
    /\ lastFailed = {}
    /\ inp = NoInput
    /\ out = NoInput
    /\ today = AppToday
    /\ summary = NoInput
    /\ cache = NoEntry
    /\ loaded = Entry(df)
    /\ session = SignedIn

\* "Update Record" pressed for row record_index of the filtered view; the
\* number input admits the rows of the view only
EditSelected(year_filter, month_filter, record_index, date, s, e, t, ok) ==
    /\ lastOp = "none"
    /\ record_index \in 0..(Len(FilteredIndex(df, year_filter, month_filter)) - 1)
    /\ inp' = [fn |-> "edit", year_filter |-> year_filter,
               month_filter |-> month_filter, record_index |-> record_index,
               date |-> date, start |-> s, end |-> e, ftype |-> t]
    /\ EditRecord(actual_index(df, year_filter, month_filter, record_index),
                  date, s, e, t, ok)

\* "Confirm Delete" pressed for row record_index of the filtered view
DeleteSelected(year_filter, month_filter, record_index, ok) ==
    /\ lastOp = "none"
    /\ record_index \in 0..(Len(FilteredIndex(df, year_filter, month_filter)) - 1)
    /\ inp' = [fn |-> "delete", year_filter |-> year_filter,
               month_filter |-> month_filter, record_index |-> record_index]
    /\ DeleteRecord(actual_index(df, year_filter, month_filter, record_index), ok)

NextEdit ==
    \/ \E yf \in YearFilters, mf \in MonthFilters, ri \in 0..(MaxLog - 1),
          x \in Inputs, ok \in BOOLEAN :
          EditSelected(yf, mf, ri, x[1], x[2], x[3], x[4], ok)
    \/ \E yf \in YearFilters, mf \in MonthFilters, ri \in 0..(MaxLog - 1),
          ok \in BOOLEAN :
          DeleteSelected(yf, mf, ri, ok)

SpecEdit == InitEdit /\ [][NextEdit]_vars

----------------------------------------------------------------------------
(* The validation functions applied to drawn arguments (SpecFn) *)

\* 04:00, 04:30, 09:00, 09:30, 09:45, 10:00, 10:30, 22:00, 22:30
FnTimes == {240, 270, 540, 570, 585, 600, 630, 1320, 1350}
\* the intervals of the records already in the log
FnIntervals == {<<270, 540>>, <<540, 600>>, <<600, 1320>>}
FnRecords ==
    {NewRecord(d, iv[1], iv[2], "Power") : d \in AppDates, iv \in FnIntervals}
FnLogs == UNION {[1..n -> FnRecords] : n \in 0..MaxExisting}
FnArgs ==
    [fn    : {"args"},
     date  : AppDates \cup {NoDate},
     start : FnTimes \cup {NoTime},
     end   : FnTimes \cup {NoTime},
     ftype : {"Power", ""}]

InitFn ==
    /\ df \in FnLogs
    /\ file = df
    /\ lastOp = "none"
    /\ lastMsg = MsgNone
    /\ lastFailed = {}
    /\ inp \in FnArgs
    /\ out = NoInput
    /\ today = AppToday
    /\ summary = NoInput
    /\ cache = NoEntry
    /\ loaded = Entry(df)
    /\ session = SignedIn

ApplyValidateRequired ==
    /\ out = NoInput
    /\ out' = [fn  |-> "validate_required_fields",
               res |-> validate_required_fields(inp.date, inp.start, inp.end, inp.ftype)]
    /\ UNCHANGED <<df, file, lastOp, lastMsg, lastFailed, inp, today, summary,
                 cache, loaded, session>>

\* reached only with both times present
ApplyValidateTime ==
    /\ out = NoInput
    /\ inp.start # NoTime /\ inp.end # NoTime
    /\ out' = [fn  |-> "validate_time_input",
               res |-> validate_time_input(inp.start, inp.end)]
    /\ UNCHANGED <<df, file, lastOp, lastMsg, lastFailed, inp, today, summary,
                 cache, loaded, session>>

\* reached only with the date and both times present
ApplyCheckDuplicate ==
    /\ out = NoInput
    /\ inp.date # NoDate /\ inp.start # NoTime /\ inp.end # NoTime
    /\ out' = [fn  |-> "check_duplicate_entry",
               res |-> check_duplicate_entry(df, inp.date, inp.start, inp.end)]
    /\ UNCHANGED <<df, file, lastOp, lastMsg, lastFailed, inp, today, summary,
                 cache, loaded, session>>

NextFn ==
    \/ ApplyValidateRequired
    \/ ApplyValidateTime
    \/ ApplyCheckDuplicate

SpecFn == InitFn /\ [][NextFn]_vars

\* C3: check_duplicate_entry reports an overlap exactly when some existing
\* record of the same date has new.start < other.end and new.end >
\* other.start; an interval that only touches the existing ones of its date
\* is accepted, and records of other dates never cause a rejection.
C3_OverlapTest ==
    out.fn = "check_duplicate_entry" =>
        /\ out.res <=> (\E k \in 1..Len(df) :
                           /\ df[k].date = inp.date
                           /\ inp.start < df[k].end
                           /\ inp.end > df[k].start)
        /\ (\A k \in 1..Len(df) :
               df[k].date = inp.date
                   => (inp.start >= df[k].end \/ inp.end <= df[k].start))
              => ~out.res
        /\ (\A k \in 1..Len(df) : df[k].date # inp.date) => ~out.res

C3_Witness ==
    /\ out.fn = "check_duplicate_entry"
    /\ ~out.res
    /\ inp.start = 600 /\ inp.end = 630
    /\ \E k \in 1..Len(df) :
          df[k].date = inp.date /\ df[k].start = 540 /\ df[k].end = 600
    /\ \E k \in 1..Len(df) :
          df[k].date # inp.date /\ df[k].start = 600 /\ df[k].end = 1320

\* C5: validate_time_input accepts a pair exactly when end > start, start >=
\* 04:30 and end <= 22:00; a pair with end <= start gets the chronology
\* reason wherever it lies, and a chronologically ordered pair that starts
\* before 04:30 or ends after 22:00 gets the window reason.
C5_TimeValidation ==
    out.fn = "validate_time_input" =>
        /\ out.res[1] <=> (inp.end > inp.start /\ inp.start >= 270 /\ inp.end <= 1320)
        /\ inp.end <= inp.start => out.res = <<FALSE, MsgChrono>>
        /\ (inp.end > inp.start /\ (inp.start < 270 \/ inp.end > 1320))
              => out.res = <<FALSE, MsgWindow>>
        /\ out.res[1] => out.res[2] = MsgNone

C5_Witness ==
    /\ out.fn = "validate_time_input"
    /\ inp.start = 1350 /\ inp.end = 240
    /\ out.res = <<FALSE, MsgChrono>>

----------------------------------------------------------------------------
(* Availability aggregation *)

\* BROADCAST_HOURS_PER_DAY * 60: 17.5 hours a day, in minutes
BROADCAST_MINUTES_PER_DAY == 1050

\* an empty dict / an empty DataFrame
EmptyDict == <<>>

\* variant: every fourth year is a leap year
is_leap_year_Julian(y) == y % 4 = 0

\* pd.Period(f"{year}").is_leap_year
is_leap_year(y) == y % 4 = 0 /\ (y % 100 # 0 \/ y % 400 = 0)

\* variant: February has 28 days in every year
days_in_month_NoLeap(y, m) ==
    IF m = 2 THEN 28
    ELSE IF m \in {4, 6, 9, 11} THEN 30
    ELSE 31

\* pd.Period(f"{year}-{month:02d}").days_in_month
days_in_month(y, m) ==
    IF m = 2 THEN (IF is_leap_year(y) THEN 29 ELSE 28)
    ELSE IF m \in {4, 6, 9, 11} THEN 30
    ELSE 31

\* (date - datetime(year, 1, 1).date()).days
RECURSIVE DaysBefore(_, _)
DaysBefore(y, m) == IF m = 1 THEN 0 ELSE DaysBefore(y, m - 1) + days_in_month(y, m - 1)
DaysSinceJan1(date) == DaysBefore(date[1], date[2]) + date[3] - 1

\* rank of strftime("%B") of a month in alphabetical order: April, August,
\* December, February, January, July, June, March, May, November, October,
\* September
MonthNameRank == <<5, 4, 8, 1, 9, 7, 6, 2, 12, 11, 10, 3>>

\* column "Downtime (minutes)": sum, max, min
RECURSIVE SumMins(_)
SumMins(rows) == IF rows = <<>> THEN 0 ELSE Head(rows).mins + SumMins(Tail(rows))
RECURSIVE MaxMins(_)
MaxMins(rows) ==
    IF Len(rows) = 1 THEN rows[1].mins
    ELSE LET m == MaxMins(Tail(rows)) IN IF rows[1].mins > m THEN rows[1].mins ELSE m
RECURSIVE MinMins(_)
MinMins(rows) ==
    IF Len(rows) = 1 THEN rows[1].mins
    ELSE LET m == MinMins(Tail(rows)) IN IF rows[1].mins < m THEN rows[1].mins ELSE m

\* column "Failure Type": count (the cells that are not empty)
CountTypes(rows) == Len(SelectSeq(rows, LAMBDA r : r.ftype # ""))

\* a quotient a / b, kept exact
Ratio(a, b) == [num |-> a, den |-> b]

\* arithmetic on quotients, each result in lowest terms
RECURSIVE Gcd(_, _)
Gcd(a, b) == IF b = 0 THEN a ELSE Gcd(b, a % b)
Abs(a) == IF a < 0 THEN 0 - a ELSE a
Reduced(n, d) == LET g == Gcd(Abs(n), d) IN Ratio(n \div g, d \div g)
\* q * k
Times_(q, k) == LET g == Gcd(Abs(k), q.den) IN Reduced(q.num * (k \div g), q.den \div g)
\* q / k
Over(q, k) == LET g == Gcd(Abs(q.num), k) IN Reduced(q.num \div g, q.den * (k \div g))
\* k + q
Plus(k, q) == Reduced(k * q.den + q.num, q.den)
\* k - q
Minus(k, q) == Reduced(k * q.den - q.num, q.den)

\* variant: the percentage is cut off at 0
Availability_Clamped(budget, downtime) ==
    IF downtime > budget THEN Ratio(0, budget)
    ELSE Ratio((budget - downtime) * 100, budget)

\* ((Total_Broadcast_Minutes - Total_Downtime_Minutes) / Total_Broadcast_Minutes) * 100
Availability(budget, downtime) == Ratio((budget - downtime) * 100, budget)

\* the keys of groupby(["Year", "Month", "Month_Num"]), in groupby's order
MonthKeyLess(a, b) ==
    \/ a[1] < b[1]
    \/ a[1] = b[1] /\ MonthNameRank[a[2]] < MonthNameRank[b[2]]
RECURSIVE GroupByMonthKeys(_)
GroupByMonthKeys(keys) ==
    IF keys = {} THEN <<>>
    ELSE LET k == CHOOSE x \in keys : \A z \in keys \ {x} : MonthKeyLess(x, z)
         IN  <<k>> \o GroupByMonthKeys(keys \ {k})

\* the keys of groupby(["Year"]), in groupby's order
RECURSIVE GroupByYearKeys(_)
GroupByYearKeys(keys) ==
    IF keys = {} THEN <<>>
    ELSE LET k == CHOOSE x \in keys : \A z \in keys : x <= z
         IN  <<k>> \o GroupByYearKeys(keys \ {k})

\* one row of monthly_summary
MonthlyRow(rows, k) ==
    LET g == SelectSeq(rows, LAMBDA r : r.date[1] = k[1] /\ r.date[2] = k[2])
        total == SumMins(g)
        dim == days_in_month(k[1], k[2])
        budget == dim * BROADCAST_MINUTES_PER_DAY
    IN  [Year |-> k[1],
         Month |-> k[2],
         Total_Downtime_Minutes |-> total,
         Failure_Count |-> CountTypes(g),
         Avg_Downtime_Per_Failure |-> Ratio(total, Len(g)),
         Days_in_Month |-> dim,
         Total_Broadcast_Minutes |-> budget,
         Availability |-> Availability(budget, total)]

\* monthly_summary.sort_values(["Year", "Month_Num"])
RECURSIVE InsertMonthly(_, _)
InsertMonthly(s, r) ==
    IF s = <<>> THEN <<r>>
    ELSE IF Head(s).Year < r.Year \/ (Head(s).Year = r.Year /\ Head(s).Month <= r.Month)
         THEN <<Head(s)>> \o InsertMonthly(Tail(s), r)
         ELSE <<r>> \o s
\* variant: the rows stay in groupby's order
SortMonthly_None(s) == s

RECURSIVE SortMonthly(_)
SortMonthly(s) ==
    IF s = <<>> THEN <<>>
    ELSE InsertMonthly(SortMonthly(SubSeq(s, 1, Len(s) - 1)), s[Len(s)])

\* one row of yearly_summary
YearlyRow(rows, y) ==
    LET g == SelectSeq(rows, LAMBDA r : r.date[1] = y)
        total == SumMins(g)
        diy == IF is_leap_year(y) THEN 366 ELSE 365
        budget == diy * BROADCAST_MINUTES_PER_DAY
    IN  [Year |-> y,
         Total_Downtime_Minutes |-> total,
         Failure_Count |-> CountTypes(g),
         Avg_Downtime_Per_Failure |-> Ratio(total, Len(g)),
         Max_Downtime |-> MaxMins(g),
         Min_Downtime |-> MinMins(g),
         Days_in_Year |-> diy,
         Total_Broadcast_Minutes |-> budget,
         Availability |-> Availability(budget, total),
         Max_Downtime_hours |-> Ratio(MaxMins(g), 60),
         Min_Downtime_hours |-> Ratio(MinMins(g), 60)]

\* variant: every record of the current year is selected
YtdSummary_WholeYear(rows, now) ==
    LET current_year == now[1]
        ytd_outages == SelectSeq(rows, LAMBDA r : r.date[1] = current_year)
        days_elapsed == DaysSinceJan1(now) + 1
        budget == days_elapsed * BROADCAST_MINUTES_PER_DAY
        total == SumMins(ytd_outages)
    IN  IF ytd_outages = <<>> THEN EmptyDict
        ELSE [current_year |-> current_year,
              days_elapsed |-> days_elapsed,
              total_broadcast_minutes |-> budget,
              total_downtime_minutes |-> total,
              ytd_availability |-> Availability(budget, total),
              failure_count |-> Len(ytd_outages),
              avg_downtime_per_failure |-> Ratio(total, Len(ytd_outages))]

\* variant: the summary is filled in also when no record is selected
YtdSummary_Always(rows, now) ==
    LET current_year == now[1]
        ytd_outages ==
            SelectSeq(rows, LAMBDA r : r.date[1] = current_year
                                        /\ DateKey(r.date) <= DateKey(now))
        days_elapsed == DaysSinceJan1(now) + 1
        budget == days_elapsed * BROADCAST_MINUTES_PER_DAY
        total == SumMins(ytd_outages)
    IN  [current_year |-> current_year,
         days_elapsed |-> days_elapsed,
         total_broadcast_minutes |-> budget,
         total_downtime_minutes |-> total,
         ytd_availability |-> Availability(budget, total),
         failure_count |-> Len(ytd_outages),
         avg_downtime_per_failure |-> Ratio(total, Len(ytd_outages))]

\* variant: the records dated today or earlier are selected, of any year
YtdSummary_AllYears(rows, now) ==
    LET current_year == now[1]
        ytd_outages == SelectSeq(rows, LAMBDA r : DateKey(r.date) <= DateKey(now))
        days_elapsed == DaysSinceJan1(now) + 1
        budget == days_elapsed * BROADCAST_MINUTES_PER_DAY
        total == SumMins(ytd_outages)
    IN  IF ytd_outages = <<>> THEN EmptyDict
        ELSE [current_year |-> current_year,
              days_elapsed |-> days_elapsed,
              total_broadcast_minutes |-> budget,
              total_downtime_minutes |-> total,
              ytd_availability |-> Availability(budget, total),
              failure_count |-> Len(ytd_outages),
              avg_downtime_per_failure |-> Ratio(total, Len(ytd_outages))]

\* ytd_summary
YtdSummary(rows, now) ==
    LET current_year == now[1]
        ytd_outages ==
            SelectSeq(rows, LAMBDA r : r.date[1] = current_year
                                        /\ DateKey(r.date) <= DateKey(now))
        days_elapsed == DaysSinceJan1(now) + 1
        budget == days_elapsed * BROADCAST_MINUTES_PER_DAY
        total == SumMins(ytd_outages)
    IN  IF ytd_outages = <<>> THEN EmptyDict
        ELSE [current_year |-> current_year,
              days_elapsed |-> days_elapsed,
              total_broadcast_minutes |-> budget,
              total_downtime_minutes |-> total,
              ytd_availability |-> Availability(budget, total),
              failure_count |-> Len(ytd_outages),
              avg_downtime_per_failure |-> Ratio(total, Len(ytd_outages))]

\* build_comprehensive_summary(df), run on the day now
build_comprehensive_summary(d, now) ==
    IF d = <<>> THEN [monthly |-> <<>>, yearly |-> <<>>]
    ELSE LET df_copy == SelectSeq(d, LAMBDA r : r.date # NaT) IN
         IF df_copy = <<>> THEN [monthly |-> <<>>, yearly |-> <<>>]
         ELSE LET mkeys == GroupByMonthKeys(
                               {<<df_copy[i].date[1], df_copy[i].date[2]>> :
                                   i \in 1..Len(df_copy)})
                  ykeys == GroupByYearKeys({df_copy[i].date[1] : i \in 1..Len(df_copy)})
              IN  [monthly |-> SortMonthly([j \in 1..Len(mkeys) |->
                                               MonthlyRow(df_copy, mkeys[j])]),
                   yearly  |-> [j \in 1..Len(ykeys) |-> YearlyRow(df_copy, ykeys[j])],
                   ytd     |-> YtdSummary(df_copy, now)]

\* @st.cache_data(ttl=300) on build_comprehensive_summary: the cache is a set
\* of entries, one for each argument a result is kept for; a call returns the
\* entry of its argument when there is one and runs the function otherwise
Cached(d) == {c \in cache : c.key = d}
cached_build_comprehensive_summary(d, now) ==
    IF Cached(d) # {} THEN (CHOOSE c \in Cached(d) : TRUE).res
    ELSE build_comprehensive_summary(d, now)
CacheAfterCall(d, now) ==
    IF Cached(d) # {} THEN cache
    ELSE cache \cup {[key |-> d, res |-> build_comprehensive_summary(d, now)]}

\* variant: the aggregation drops the rows without a date from its argument
FrameAfterSummary_InPlace(d) == SelectSeq(d, LAMBDA r : r.date # NaT)

\* the caller's df after a call of build_comprehensive_summary(df): the
\* function works on df.copy()
FrameAfterSummary(d) == d

\* availability >= 99.5 and availability >= 99.0 (avail = num / den, den > 0)
AtLeast995(q) == q.num * 2 >= 199 * q.den
AtLeast990(q) == q.num >= 99 * q.den

\* the "System Status" block of the sidebar; "KeyError" stands for the
\* exception that ends the script run
SidebarStatus(d, now) ==
    IF d # <<>>
    THEN LET summary_data == cached_build_comprehensive_summary(d, now) IN
         IF "ytd" \notin DOMAIN summary_data THEN [status |-> "KeyError"]
         ELSE LET ytd_summary == summary_data.ytd IN
              IF ytd_summary # EmptyDict
              THEN LET availability == ytd_summary.ytd_availability IN
                   [status |-> IF AtLeast995(availability) THEN "Excellent"
                               ELSE IF AtLeast990(availability) THEN "Good"
                               ELSE "Needs Attention",
                    availability |-> availability,
                    failures |-> ytd_summary.failure_count]
              ELSE [status |-> "No YTD data"]
    ELSE [status |-> "No data"]

\* variant: the projection runs to the end of the calendar year
Projection_LeapAware(ytd_summary) ==
    LET diy == IF is_leap_year(ytd_summary.current_year) THEN 366 ELSE 365 IN
    IF ytd_summary.days_elapsed < diy
    THEN LET days_remaining == diy - ytd_summary.days_elapsed
             projected_remaining_downtime ==
                 Times_(Reduced(ytd_summary.total_downtime_minutes,
                                ytd_summary.days_elapsed), days_remaining)
             projected_total_downtime ==
                 Plus(ytd_summary.total_downtime_minutes, projected_remaining_downtime)
         IN  [shown |-> TRUE,
              projected_remaining_downtime |-> projected_remaining_downtime,
              projected_total_downtime |-> projected_total_downtime,
              projected_availability |->
                  Times_(Over(Minus(diy * BROADCAST_MINUTES_PER_DAY,
                                    projected_total_downtime),
                              diy * BROADCAST_MINUTES_PER_DAY), 100)]
    ELSE [shown |-> FALSE]

\* variant: the projected total leaves out the downtime to date
Projection_NoCarry(ytd_summary) ==
    IF ytd_summary.days_elapsed < 365
    THEN LET days_remaining == 365 - ytd_summary.days_elapsed
             projected_remaining_downtime ==
                 Times_(Reduced(ytd_summary.total_downtime_minutes,
                                ytd_summary.days_elapsed), days_remaining)
             projected_total_downtime == projected_remaining_downtime
         IN  [shown |-> TRUE,
              projected_remaining_downtime |-> projected_remaining_downtime,
              projected_total_downtime |-> projected_total_downtime,
              projected_availability |->
                  Times_(Over(Minus(365 * BROADCAST_MINUTES_PER_DAY,
                                    projected_total_downtime),
                              365 * BROADCAST_MINUTES_PER_DAY), 100)]
    ELSE [shown |-> FALSE]

\* "Projected Full Year Availability" of the View Summary page
Projection(ytd_summary) ==
    IF ytd_summary.days_elapsed < 365
    THEN LET days_remaining == 365 - ytd_summary.days_elapsed
             projected_remaining_downtime ==
                 Times_(Reduced(ytd_summary.total_downtime_minutes,
                                ytd_summary.days_elapsed), days_remaining)
             projected_total_downtime ==
                 Plus(ytd_summary.total_downtime_minutes, projected_remaining_downtime)
         IN  [shown |-> TRUE,
              projected_remaining_downtime |-> projected_remaining_downtime,
              projected_total_downtime |-> projected_total_downtime,
              projected_availability |->
                  Times_(Over(Minus(365 * BROADCAST_MINUTES_PER_DAY,
                                    projected_total_downtime),
                              365 * BROADCAST_MINUTES_PER_DAY), 100)]
    ELSE [shown |-> FALSE]

\* what the View Summary page shows, the year and month filters at "All"
ViewSummaryPage(d, now) ==
    IF d = <<>> THEN [shown |-> "No data available"]
    ELSE LET summary_data == cached_build_comprehensive_summary(d, now) IN
         IF "ytd" \notin DOMAIN summary_data THEN [shown |-> "KeyError"]
         ELSE LET ytd_summary == summary_data.ytd IN
              [shown |-> "summary",
               monthly |-> summary_data.monthly,
               yearly |-> summary_data.yearly,
               ytd |-> ytd_summary,
               projection |-> IF ytd_summary # EmptyDict THEN Projection(ytd_summary)
                              ELSE [shown |-> FALSE]]

----------------------------------------------------------------------------
(* The aggregation applied to drawn record sets (SpecSummary) *)

\* largest number of records of a drawn record set
MaxRecords == 2

\* dates of the drawn records: leap and common years, a century year that is
\* no leap year and one that is, and a date that does not parse
SumDates ==
    {<<2000, 2, 1>>, <<2023, 2, 10>>, <<2024, 1, 5>>, <<2024, 2, 15>>,
     <<2024, 4, 30>>, <<2100, 2, 1>>, NaT}
\* downtimes of the drawn records; the largest exceeds the budget of a month
SumMinutes == {60, 500, 40000}
SumRecords ==
    {[date |-> d, start |-> 540, end |-> 600, mins |-> m, hhmm |-> DowntimeStr(m),
      ftype |-> "Power"] : d \in SumDates, m \in SumMinutes}
SumLogs == UNION {[1..n -> SumRecords] : n \in 0..MaxRecords}
\* the days the aggregation runs on: after 29 February of a leap year, the
\* last day of a common year, the 100th day of a common year
SumTodays == {<<2024, 3, 1>>, <<2023, 12, 31>>, <<2023, 4, 10>>}

InitSummary ==
    /\ df \in SumLogs
    /\ file = df
    /\ lastOp = "none"
    /\ lastMsg = MsgNone
    /\ lastFailed = {}
    /\ inp = NoInput
    /\ out = NoInput
    /\ today \in SumTodays
    /\ summary = NoInput
    /\ cache = NoEntry
    /\ loaded = Entry(df)
    /\ session = SignedIn

\* a call build_comprehensive_summary(df)
BuildSummary ==
    /\ summary = NoInput
    /\ summary' = [fn |-> "build_comprehensive_summary",
                   res |-> cached_build_comprehensive_summary(df, today)]
    /\ cache' = CacheAfterCall(df, today)
    /\ df' = FrameAfterSummary(df)
    /\ UNCHANGED <<file, lastOp, lastMsg, lastFailed, inp, out, today, loaded, session>>

\* a run of the script as far as the sidebar
Sidebar ==
    /\ check_password(session)
    /\ out = NoInput
    /\ out' = [fn |-> "sidebar"] @@ SidebarStatus(df, today)
    /\ cache' = IF df # <<>> THEN CacheAfterCall(df, today) ELSE cache
    /\ df' = IF df # <<>> THEN FrameAfterSummary(df) ELSE df
    /\ UNCHANGED <<file, lastOp, lastMsg, lastFailed, inp, today, summary,
                   loaded, session>>

\* the run goes on to the View Summary page; an exception in the sidebar has
\* ended it before
ViewSummary ==
    /\ out # NoInput
    /\ out.fn = "sidebar"
    /\ out.status # "KeyError"
    /\ out' = [fn |-> "View Summary", status |-> out.status,
               page |-> ViewSummaryPage(df, today)]
    /\ cache' = IF df # <<>> THEN CacheAfterCall(df, today) ELSE cache
    /\ df' = IF df # <<>> THEN FrameAfterSummary(df) ELSE df
    /\ UNCHANGED <<file, lastOp, lastMsg, lastFailed, inp, today, summary,
                   loaded, session>>

NextSummary == BuildSummary \/ Sidebar \/ ViewSummary

SpecSummary == InitSummary /\ [][NextSummary]_vars

----------------------------------------------------------------------------
(* The cached aggregation queried as the days pass (SpecCache) *)

\* largest number of midnights that pass
MaxMidnights == 1

\* the logs queried: records of the year before, of the current year, and of
\* the day after the first start day
CacheDates == {<<2023, 2, 10>>, <<2024, 1, 5>>, <<2024, 2, 15>>}
CacheRecords ==
    {[date |-> d, start |-> 540, end |-> 600, mins |-> 60, hhmm |-> DowntimeStr(60),
      ftype |-> "Power"] : d \in CacheDates}
CacheLogs == UNION {[1..n -> CacheRecords] : n \in 0..MaxRecords}
\* the days the app is started on
CacheStarts == {<<2024, 2, 14>>, <<2023, 12, 31>>}

\* the day after a day
NextDay(date) ==
    IF date[3] < days_in_month(date[1], date[2]) THEN <<date[1], date[2], date[3] + 1>>
    ELSE IF date[2] < 12 THEN <<date[1], date[2] + 1, 1>>
    ELSE <<date[1] + 1, 1, 1>>
\* the days reached from a start day by at most n midnights
RECURSIVE DaysWithin(_)
DaysWithin(n) ==
    IF n = 0 THEN CacheStarts
    ELSE DaysWithin(n - 1) \cup {NextDay(d) : d \in DaysWithin(n - 1)}

InitCache ==
    /\ df \in CacheLogs
    /\ file = df
    /\ lastOp = "none"
    /\ lastMsg = MsgNone
    /\ lastFailed = {}
    /\ inp = NoInput
    /\ out = NoInput
    /\ today \in CacheStarts
    /\ summary = NoInput
    /\ cache = NoEntry
    /\ loaded = Entry(df)
    /\ session = SignedIn

\* a call build_comprehensive_summary(df) on the day today
CachedQuery ==
    /\ summary' = [fn |-> "cached query", at |-> today,
                   res |-> cached_build_comprehensive_summary(df, today)]
    /\ cache' = CacheAfterCall(df, today)
    /\ df' = FrameAfterSummary(df)
    /\ UNCHANGED <<file, lastOp, lastMsg, lastFailed, inp, out, today, loaded, session>>

\* midnight: datetime.now() is of the next day; the entries of the cache stay
Midnight ==
    /\ MaxMidnights >= 1
    /\ today \in DaysWithin(MaxMidnights - 1)
    /\ today' = NextDay(today)
    /\ UNCHANGED <<df, file, lastOp, lastMsg, lastFailed, inp, out, summary,
                 cache, loaded, session>>

\* an entry is 300 seconds old and is dropped
CacheExpires(c) ==
    /\ c \in cache
    /\ cache' = cache \ {c}
    /\ UNCHANGED <<df, file, lastOp, lastMsg, lastFailed, inp, out, today,
                 summary, loaded, session>>

NextCache ==
    \/ CachedQuery
    \/ Midnight
    \/ \E c \in cache : CacheExpires(c)

SpecCache == InitCache /\ [][NextCache]_vars

\* C17: at every query the cached build_comprehensive_summary returns what
\* an aggregation of the same record set run at the moment of the query
\* returns, the YTD part included, also when the date has changed since the
\* cached computation.
C17_CacheInvisible ==
    summary.fn = "cached query" =>
        summary.res = build_comprehensive_summary(df, summary.at)

----------------------------------------------------------------------------
(* The application used on the first day of a year, and the aggregation of
   its log (SpecYearStart) *)

YearStart == <<2024, 1, 1>>
\* the date submitted: today
YearStartDates == {<<2024, 1, 1>>}
\* 04:30, 10:00, 22:00
YearStartTimes == {270, 600, 1320}
YearStartInputs == YearStartDates \X YearStartTimes \X YearStartTimes \X FailureTypes

InitYearStart ==
    /\ df = <<>>
    /\ file = <<>>
    /\ lastOp = "none"
    /\ lastMsg = MsgNone
    /\ lastFailed = {}
    /\ inp = NoInput
    /\ out = NoInput
    /\ today = YearStart
    /\ summary = NoInput
    /\ cache = NoEntry
    /\ loaded = Entry(df)
    /\ session = SignedIn

NextYearStart ==
    \/ \E x \in YearStartInputs, ok \in BOOLEAN :
          LogOutage(x[1], x[2], x[3], x[4], ok) /\ UNCHANGED inp
    \/ \E i \in 1..MaxLog, x \in YearStartInputs, ok \in BOOLEAN :
          EditRecord(i, x[1], x[2], x[3], x[4], ok) /\ UNCHANGED inp
    \/ \E i \in 1..MaxLog, ok \in BOOLEAN : DeleteRecord(i, ok) /\ UNCHANGED inp
    \/ BuildSummary

SpecYearStart == InitYearStart /\ [][NextYearStart]_vars

\* the percentage q lies in [0, 100]
InRange(q) == q.den > 0 /\ 0 <= q.num /\ q.num <= 100 * q.den

\* C22: after any sequence of successful add, edit and delete operations
\* from the empty log, every monthly, yearly and YTD availability the
\* aggregation reports lies in [0, 100]: no bucket has more downtime than
\* broadcast minutes.
C22_AvailabilityInRange ==
    summary.fn = "build_comprehensive_summary" =>
        LET res == summary.res IN
        /\ \A j \in 1..Len(res.monthly) : InRange(res.monthly[j].Availability)
        /\ \A j \in 1..Len(res.yearly) : InRange(res.yearly[j].Availability)
        /\ ("ytd" \in DOMAIN res /\ res.ytd # <<>>) => InRange(res.ytd.ytd_availability)

----------------------------------------------------------------------------
(* A session from its first page view: the password gate and the application
   behind it (SpecGate) *)

\* what is typed into the password input
Passwords == {"technical", "Technical", "guess"}
\* the sheet on disk when the session starts
GateFiles == {<<>>, <<NewRecord(<<2024, 2, 15>>, 270, 600, "Power")>>}
\* the submissions tried behind the gate
GateInputs == {<<(<<2024, 2, 15>>), 270, 600, "Power">>,
               <<(<<2024, 2, 15>>), 600, 1320, "Power">>,
               <<(<<2025, 3, 1>>), 1320, 600, "Power">>}

InitGate ==
    /\ df = <<>>
    /\ file \in GateFiles
    /\ lastOp = "none"
    /\ lastMsg = MsgNone
    /\ lastFailed = {}
    /\ inp = NoInput
    /\ out = NoInput
    /\ today = AppToday
    /\ summary = NoInput
    /\ cache = NoEntry
    /\ loaded = NoLoad
    /\ session = NoSession

\* a run of the script from its top with the session state ss: the gate,
\* and behind it df = load_data(); the status block of the sidebar that
\* follows is the step Sidebar
ScriptRun(ss) ==
    /\ session' = ss
    /\ lastMsg' = GateMsg(ss)
    /\ IF check_password(ss)
       THEN /\ df' = cached_load_data(loaded, file)
            /\ loaded' = Entry(cached_load_data(loaded, file))
       ELSE UNCHANGED <<df, loaded>>
    /\ UNCHANGED <<file, lastFailed, out, today, summary, cache>>

\* the run goes on to the Data Export page: the log as CSV, and the
\* summaries of build_comprehensive_summary(df) when the log is not empty
DataExport ==
    /\ check_password(session)
    /\ out # NoInput
    /\ out.fn = "sidebar"
    /\ out.status # "KeyError"
    /\ out' = [fn |-> "Data Export", status |-> out.status, csv_data |-> df]
    /\ cache' = IF df # <<>> THEN CacheAfterCall(df, today) ELSE cache
    /\ df' = IF df # <<>> THEN FrameAfterSummary(df) ELSE df
    /\ UNCHANGED <<file, lastOp, lastMsg, lastFailed, inp, today, summary,
                   loaded, session>>

\* the page is opened or reloaded
OpenPage ==
    /\ lastOp' = "open"
    /\ inp' = inp
    /\ ScriptRun(session)

\* p is typed into the password input, which the script shows when
\* check_password() fails: the callback runs, then the script
PasswordEntered(p) ==
    /\ ~check_password(session)
    /\ p # session.password
    /\ lastOp' = "password"
    /\ inp' = [fn |-> "password", value |-> p]
    /\ ScriptRun(password_entered([session EXCEPT !.password = p]))

NextGate ==
    \/ OpenPage
    \/ \E p \in Passwords : PasswordEntered(p)
    \/ \E x \in GateInputs, ok \in BOOLEAN :
          LogOutage(x[1], x[2], x[3], x[4], ok) /\ UNCHANGED inp
    \/ \E i \in 1..MaxLog, x \in GateInputs, ok \in BOOLEAN :
          EditRecord(i, x[1], x[2], x[3], x[4], ok) /\ UNCHANGED inp
    \/ \E i \in 1..MaxLog, ok \in BOOLEAN : DeleteRecord(i, ok) /\ UNCHANGED inp
    \/ Sidebar
    \/ DataExport

SpecGate == InitGate /\ [][NextGate]_vars

\* C26: the log is loaded, and an add, edit, delete, summary or export step runs,
\* only in a run in which password_correct is true; password_correct becomes
\* true only by entering the correct password; an incorrect entry sets it to
\* false and shows the error; once true it stays true, and the entered
\* password is not in the session state.
C26_PasswordGate ==
    [][/\ (\/ lastOp' \in {"add", "edit", "delete"}
           \/ loaded' # loaded \/ df' # df \/ file' # file
           \/ cache' # cache \/ out' # out \/ summary' # summary)
              => session'.password_correct = "true"
       /\ (session'.password_correct = "true" /\ session.password_correct # "true")
              => (lastOp' = "password" /\ inp'.value = "technical")
       /\ (lastOp' = "password" /\ session' # session /\ inp'.value # "technical")
              => /\ session'.password_correct = "false"
                 /\ lastMsg' = MsgPasswordIncorrect
       /\ session.password_correct = "true" => session' = session
       /\ session'.password_correct = "true" => session'.password = "absent"]_vars

\* after the correct password the sheet was loaded, the sidebar showed its
\* status, the log was exported and a record was deleted
C26_Witness ==
    /\ session = SignedIn
    /\ inp = [fn |-> "password", value |-> "technical"]
    /\ loaded.hit
    /\ lastOp = "delete"
    /\ lastMsg = MsgDeleted
    /\ out.fn = "Data Export"
    /\ out.csv_data # <<>>

----------------------------------------------------------------------------
(* Claim helpers of the aggregation *)

\* the records of d that parse and satisfy year = y (and month = m unless m = 0)
ParsedIn(d, y, m) ==
    {i \in 1..Len(d) :
        d[i].date # NaT /\ d[i].date[1] = y /\ (m = 0 \/ d[i].date[2] = m)}
RECURSIVE TotalOf(_, _)
TotalOf(d, idx) ==
    IF idx = {} THEN 0
    ELSE LET i == CHOOSE x \in idx : TRUE IN d[i].mins + TotalOf(d, idx \ {i})
GregorianLeap(y) == (y % 4 = 0) /\ ((y % 100 # 0) \/ (y % 400 = 0))
CalendarDays(y, m) ==
    CASE m \in {1, 3, 5, 7, 8, 10, 12} -> 31
      [] m \in {4, 6, 9, 11} -> 30
      [] m = 2 -> IF GregorianLeap(y) THEN 29 ELSE 28
\* a quotient in lowest terms
Lowest(num, den) ==
    LET g == Gcd(Abs(num), den) IN <<num \div g, den \div g>>
\* q stands for 100 * (budget - total) / budget
IsAvailability(q, budget, total) ==
    /\ q.den > 0
    /\ Lowest(q.num, q.den) = Lowest(100 * (budget - total), budget)

\* C9: for every (year, month) holding a record with a parseable date the
\* monthly summary has exactly one row, with the group's total downtime and
\* number of records, budget = days_in_month x 1050 (29 days for February of
\* a leap year) and availability = 100 x (budget - total) / budget, negative
\* when the total exceeds the budget; it has no other rows.
C9_MonthlySummary ==
    summary.fn = "build_comprehensive_summary" =>
        LET monthly == summary.res.monthly
            months == {<<df[i].date[1], df[i].date[2]>> :
                          i \in {x \in 1..Len(df) : df[x].date # NaT}}
        IN  /\ \A k \in months :
                  LET idx == ParsedIn(df, k[1], k[2])
                      total == TotalOf(df, idx)
                      budget == CalendarDays(k[1], k[2]) * 1050
                      found == {j \in 1..Len(monthly) :
                                   monthly[j].Year = k[1] /\ monthly[j].Month = k[2]}
                  IN  /\ Cardinality(found) = 1
                      /\ \A j \in found :
                            /\ monthly[j].Total_Downtime_Minutes = total
                            /\ monthly[j].Failure_Count = Cardinality(idx)
                            /\ monthly[j].Days_in_Month = CalendarDays(k[1], k[2])
                            /\ monthly[j].Total_Broadcast_Minutes = budget
                            /\ IsAvailability(monthly[j].Availability, budget, total)
                            /\ total > budget => monthly[j].Availability.num < 0
            /\ \A j \in 1..Len(monthly) :
                  <<monthly[j].Year, monthly[j].Month>> \in months

C9_Witness ==
    /\ summary.fn = "build_comprehensive_summary"
    /\ \E i \in 1..Len(df) : df[i].date = NaT
    /\ Len(summary.res.monthly) = 1
    /\ summary.res.monthly[1].Year = 2024
    /\ summary.res.monthly[1].Month = 2
    /\ summary.res.monthly[1].Days_in_Month = 29
    /\ summary.res.monthly[1].Total_Downtime_Minutes = 40000
    /\ summary.res.monthly[1].Availability.num < 0

\* C10: for every year holding a record the yearly summary has exactly one
\* row, with total, count, max and min of the year's downtimes, days_in_year
\* = 366 when the year is divisible by 4 and (not by 100 or by 400) and 365
\* otherwise, budget = days_in_year x 1050 and availability = 100 x (budget -
\* total) / budget; it has no other rows.
C10_YearlySummary ==
    summary.fn = "build_comprehensive_summary" =>
        LET yearly == summary.res.yearly
            years == {df[i].date[1] : i \in {x \in 1..Len(df) : df[x].date # NaT}}
        IN  /\ \A y \in years :
                  LET idx == ParsedIn(df, y, 0)
                      total == TotalOf(df, idx)
                      days == IF GregorianLeap(y) THEN 366 ELSE 365
                      budget == days * 1050
                      found == {j \in 1..Len(yearly) : yearly[j].Year = y}
                  IN  /\ Cardinality(found) = 1
                      /\ \A j \in found :
                            /\ yearly[j].Total_Downtime_Minutes = total
                            /\ yearly[j].Failure_Count = Cardinality(idx)
                            /\ \E i \in idx : yearly[j].Max_Downtime = df[i].mins
                            /\ \A i \in idx : yearly[j].Max_Downtime >= df[i].mins
                            /\ \E i \in idx : yearly[j].Min_Downtime = df[i].mins
                            /\ \A i \in idx : yearly[j].Min_Downtime <= df[i].mins
                            /\ yearly[j].Days_in_Year = days
                            /\ yearly[j].Total_Broadcast_Minutes = budget
                            /\ IsAvailability(yearly[j].Availability, budget, total)
            /\ \A j \in 1..Len(yearly) : yearly[j].Year \in years

C10_Witness ==
    /\ summary.fn = "build_comprehensive_summary"
    /\ Len(summary.res.yearly) = 2
    /\ summary.res.yearly[1].Year = 2000
    /\ summary.res.yearly[1].Days_in_Year = 366
    /\ summary.res.yearly[2].Year = 2100
    /\ summary.res.yearly[2].Days_in_Year = 365

\* C11: whatever the order of the records in the log, the rows of the monthly
\* summary are in strictly ascending order of (year, month number), so no
\* (year, month) appears twice.
C11_MonthlyAscending ==
    summary.fn = "build_comprehensive_summary" =>
        LET monthly == summary.res.monthly IN
        \A i, j \in 1..Len(monthly) :
            i < j => \/ monthly[i].Year < monthly[j].Year
                     \/ /\ monthly[i].Year = monthly[j].Year
                        /\ monthly[i].Month < monthly[j].Month

\* the log holds April 2024 before February 2024 (and groupby puts "April"
\* before "February"); the summary has February first
C11_Witness ==
    /\ summary.fn = "build_comprehensive_summary"
    /\ Len(df) = 2
    /\ df[1].date = <<2024, 4, 30>>
    /\ df[2].date = <<2024, 2, 15>>
    /\ Len(summary.res.monthly) = 2
    /\ summary.res.monthly[1].Month = 2
    /\ summary.res.monthly[2].Month = 4

\* a date is not after another
DateNotAfter(a, b) ==
    \/ a[1] < b[1]
    \/ a[1] = b[1] /\ a[2] < b[2]
    \/ a[1] = b[1] /\ a[2] = b[2] /\ a[3] <= b[3]
\* the number of the day in its year, 1 January being day 1
RECURSIVE DayOfYear(_)
DayOfYear(date) ==
    IF date[2] = 1 THEN date[3]
    ELSE DayOfYear(<<date[1], date[2] - 1, CalendarDays(date[1], date[2] - 1)>>)
         + date[3]
\* the records of d of the year of day t dated t or earlier
YtdIn(d, t) ==
    {i \in 1..Len(d) :
        d[i].date # NaT /\ d[i].date[1] = t[1] /\ DateNotAfter(d[i].date, t)}

\* C12: a YTD summary that is present is computed over exactly the records of
\* the current year Y dated today (T) or earlier: days_elapsed = (T - 1 January
\* of Y) + 1, budget = days_elapsed x 1050, total_downtime = the sum of their
\* downtimes, failure_count = their number and availability = 100 x (budget -
\* total_downtime) / budget.
C12_YtdSummary ==
    (/\ summary.fn = "build_comprehensive_summary"
     /\ "ytd" \in DOMAIN summary.res
     /\ summary.res.ytd # <<>>) =>
        LET ytd == summary.res.ytd
            idx == YtdIn(df, today)
            elapsed == DayOfYear(today)
            total == TotalOf(df, idx)
        IN  /\ ytd.current_year = today[1]
            /\ ytd.days_elapsed = elapsed
            /\ ytd.total_broadcast_minutes = elapsed * 1050
            /\ ytd.total_downtime_minutes = total
            /\ ytd.failure_count = Cardinality(idx)
            /\ IsAvailability(ytd.ytd_availability, elapsed * 1050, total)

\* on 1 March 2024 (day 61 of a leap year) the log holds a record of February
\* 2024 and one of April 2024; only the first is counted
C12_Witness ==
    /\ summary.fn = "build_comprehensive_summary"
    /\ today = <<2024, 3, 1>>
    /\ \E i \in 1..Len(df) : df[i].date = <<2024, 4, 30>>
    /\ \E i \in 1..Len(df) : df[i].date = <<2024, 2, 15>> /\ df[i].mins = 500
    /\ "ytd" \in DOMAIN summary.res
    /\ summary.res.ytd # <<>>
    /\ summary.res.ytd.days_elapsed = 61
    /\ summary.res.ytd.failure_count = 1
    /\ summary.res.ytd.total_downtime_minutes = 500

\* the YTD outcome of a result, read as absent when the result has none
YtdOf(res) == IF "ytd" \in DOMAIN res THEN res.ytd ELSE <<>>
\* the record has a date
Parsed(r) == r.date # NaT

\* C13: the result of the aggregation carries a YTD outcome that is absent
\* exactly when no record is of the current year and dated today or earlier;
\* for the empty record set monthly and yearly are empty and YTD is absent;
\* a caller reading the YTD outcome never fails and shows "No YTD data" for
\* an absent one.
C13_YtdOutcome ==
    /\ summary.fn = "build_comprehensive_summary" =>
           /\ YtdOf(summary.res) = <<>> <=> YtdIn(df, today) = {}
           /\ df = <<>> => /\ summary.res.monthly = <<>>
                           /\ summary.res.yearly = <<>>
    /\ out.fn \in {"sidebar", "View Summary"} =>
           /\ out.status # "KeyError"
           /\ out.status = "No YTD data" <=> (df # <<>> /\ YtdIn(df, today) = {})

\* C14: for a record set in which some (possibly all) records have a date
\* that does not parse, the aggregation and the callers reading its outputs
\* run to completion, and the outputs are those of the record set without
\* these records.
C14_SkipMalformed ==
    (\E i \in 1..Len(df) : ~Parsed(df[i])) =>
        LET clean == SelectSeq(df, Parsed)
            expected == build_comprehensive_summary(clean, today)
        IN  /\ summary.fn = "build_comprehensive_summary" =>
                   /\ summary.res.monthly = expected.monthly
                   /\ summary.res.yearly = expected.yearly
                   /\ YtdOf(summary.res) = YtdOf(expected)
            /\ out.fn \in {"sidebar", "View Summary"} =>
                   /\ out.status # "KeyError"
                   /\ out.status = SidebarStatus(clean, today).status
            /\ out.fn = "View Summary" => out.page = ViewSummaryPage(clean, today)

\* the percentage 100 x (365 x 1050 - t) / (365 x 1050) of a quotient t given
\* in lowest terms <<n, d>>, in lowest terms
ProjectedPct(t) ==
    LET base == Lowest(365 * 1050 * t[2] - t[1], 365 * 1050 * t[2])
    IN  Lowest(100 * base[1], base[2])
AsPair(q) == <<q.num, q.den>>

\* C15: the View Summary page computes the projection exactly when YTD is
\* present with days_elapsed < 365, as remaining = (ytd_downtime /
\* days_elapsed) x (365 - days_elapsed), total = ytd_downtime + remaining,
\* availability = 100 x (365 x 1050 - total) / (365 x 1050), with 365 days
\* also in a leap year; days_elapsed = 100 and ytd_downtime = 500 gives
\* total = 1825.
C15_Projection ==
    (out.fn = "View Summary" /\ out.page.shown = "summary") =>
        LET ytd == out.page.ytd
            p == out.page.projection
        IN  IF ytd = <<>> THEN ~p.shown
            ELSE LET D == ytd.total_downtime_minutes
                     E == ytd.days_elapsed
                     total == Lowest(D * E + D * (365 - E), E)
                 IN  /\ p.shown <=> E < 365
                     /\ p.shown =>
                           /\ AsPair(p.projected_remaining_downtime)
                                  = Lowest(D * (365 - E), E)
                           /\ AsPair(p.projected_total_downtime) = total
                           /\ AsPair(p.projected_availability) = ProjectedPct(total)
                           /\ (E = 100 /\ D = 500) =>
                                  p.projected_total_downtime = [num |-> 1825, den |-> 1]

\* on day 100 of 2023 with 500 minutes of downtime the page shows a projected
\* total of 1825 minutes
C15_Witness ==
    /\ out.fn = "View Summary"
    /\ out.page.shown = "summary"
    /\ today = <<2023, 4, 10>>
    /\ out.page.ytd # <<>>
    /\ out.page.ytd.days_elapsed = 100
    /\ out.page.ytd.total_downtime_minutes = 500
    /\ out.page.projection.shown
    /\ out.page.projection.projected_total_downtime = [num |-> 1825, den |-> 1]

\* C16: a call of build_comprehensive_summary, by itself or from the sidebar
\* or the View Summary page, leaves the log passed to it and the persisted
\* log as they were, and showing the page with its projection changes no
\* stored summary either.
C16_NoMutation ==
    [][/\ (summary' # summary \/ out' # out) => (df' = df /\ file' = file)
       /\ (out' # out /\ out'.fn = "View Summary") =>
              (summary' = summary /\ cache' = cache)]_vars

\* a log with a record without a date has been aggregated and shown with a
\* projection, and still holds that record
C16_Witness ==
    /\ summary.fn = "build_comprehensive_summary"
    /\ out.fn = "View Summary"
    /\ out.page.shown = "summary"
    /\ out.page.projection.shown
    /\ Len(df) = 2
    /\ \E i \in 1..Len(df) : df[i].date = NaT
    /\ file = df

\* C18: every monthly, yearly and YTD summary has at least one day, a budget
\* above 0 and at least one failure, so the availability and the mean
\* downtime are never divided by 0.
C18_BucketsDefined ==
    summary.fn = "build_comprehensive_summary" =>
        LET res == summary.res IN
        /\ \A j \in 1..Len(res.monthly) :
              /\ res.monthly[j].Days_in_Month >= 1
              /\ res.monthly[j].Total_Broadcast_Minutes > 0
              /\ res.monthly[j].Failure_Count >= 1
              /\ res.monthly[j].Availability.den > 0
              /\ res.monthly[j].Avg_Downtime_Per_Failure.den >= 1
        /\ \A j \in 1..Len(res.yearly) :
              /\ res.yearly[j].Days_in_Year >= 1
              /\ res.yearly[j].Total_Broadcast_Minutes > 0
              /\ res.yearly[j].Failure_Count >= 1
              /\ res.yearly[j].Availability.den > 0
              /\ res.yearly[j].Avg_Downtime_Per_Failure.den >= 1
        /\ YtdOf(res) # <<>> =>
              /\ res.ytd.days_elapsed >= 1
              /\ res.ytd.total_broadcast_minutes > 0
              /\ res.ytd.failure_count >= 1
              /\ res.ytd.ytd_availability.den > 0
              /\ res.ytd.avg_downtime_per_failure.den >= 1

\* a result with monthly, yearly and YTD summaries, from a log that also holds
\* a record dated after today
C18_Witness ==
    /\ summary.fn = "build_comprehensive_summary"
    /\ today = <<2024, 3, 1>>
    /\ Len(summary.res.monthly) = 2
    /\ Len(summary.res.yearly) = 1
    /\ YtdOf(summary.res) # <<>>
    /\ summary.res.ytd.failure_count = 1
    /\ \E i \in 1..Len(df) : df[i].date = <<2024, 4, 30>>

\* C23: whenever the projection is shown, the projected total is ytd_downtime
\* x 365 / days_elapsed and the projected availability is the YTD
\* availability.
C23_ProjectionIsYtd ==
    (/\ out.fn = "View Summary"
     /\ out.page.shown = "summary"
     /\ out.page.projection.shown) =>
        LET ytd == out.page.ytd
            p == out.page.projection
        IN  /\ AsPair(p.projected_total_downtime)
                   = Lowest(ytd.total_downtime_minutes * 365, ytd.days_elapsed)
            /\ AsPair(p.projected_availability)
                   = Lowest(ytd.ytd_availability.num, ytd.ytd_availability.den)

\* on day 61 of 2024 the page shows a projection for 560 minutes of downtime
C23_Witness ==
    /\ out.fn = "View Summary"
    /\ out.page.shown = "summary"
    /\ out.page.projection.shown
    /\ today = <<2024, 3, 1>>
    /\ out.page.ytd.days_elapsed = 61
    /\ out.page.ytd.total_downtime_minutes = 560
    /\ out.page.ytd.failure_count = 2

\* sums over the monthly rows of a year
RECURSIVE MonthlyDowntime(_, _)
MonthlyDowntime(monthly, y) ==
    IF monthly = <<>> THEN 0
    ELSE (IF Head(monthly).Year = y THEN Head(monthly).Total_Downtime_Minutes ELSE 0)
         + MonthlyDowntime(Tail(monthly), y)
RECURSIVE MonthlyFailures(_, _)
MonthlyFailures(monthly, y) ==
    IF monthly = <<>> THEN 0
    ELSE (IF Head(monthly).Year = y THEN Head(monthly).Failure_Count ELSE 0)
         + MonthlyFailures(Tail(monthly), y)
\* the budgets the monthly summary gives the months 1..m of the year y
RECURSIVE MonthBudgets(_, _)
MonthBudgets(y, m) ==
    IF m = 0 THEN 0
    ELSE days_in_month(y, m) * BROADCAST_MINUTES_PER_DAY + MonthBudgets(y, m - 1)

\* C24: for every year of the yearly summary, the total downtimes of the
\* year's monthly rows add up to the yearly total downtime, their failure
\* counts to the yearly failure count, and the budgets of the twelve months
\* of the year to days_in_year x 1050, the yearly budget.
C24_MonthlyYearlyAgree ==
    summary.fn = "build_comprehensive_summary" =>
        LET monthly == summary.res.monthly
            yearly == summary.res.yearly
        IN  /\ \A j \in 1..Len(yearly) :
                  /\ MonthlyDowntime(monthly, yearly[j].Year)
                         = yearly[j].Total_Downtime_Minutes
                  /\ MonthlyFailures(monthly, yearly[j].Year) = yearly[j].Failure_Count
                  /\ MonthBudgets(yearly[j].Year, 12) = yearly[j].Days_in_Year * 1050
                  /\ MonthBudgets(yearly[j].Year, 12) = yearly[j].Total_Broadcast_Minutes
            /\ \A k \in 1..Len(monthly) :
                  \E j \in 1..Len(yearly) : yearly[j].Year = monthly[k].Year

\* leap year 2024 with records in February and April: two monthly rows and
\* one yearly row of 366 days
C24_Witness ==
    /\ summary.fn = "build_comprehensive_summary"
    /\ Len(summary.res.monthly) = 2
    /\ Len(summary.res.yearly) = 1
    /\ summary.res.yearly[1].Year = 2024
    /\ summary.res.yearly[1].Days_in_Year = 366
    /\ summary.res.monthly[1].Total_Downtime_Minutes = 60
    /\ summary.res.monthly[2].Total_Downtime_Minutes = 500
    /\ summary.res.yearly[1].Total_Downtime_Minutes = 560

\* the records of d of the year of day t dated after t
FutureIn(d, t) ==
    {i \in 1..Len(d) :
        d[i].date # NaT /\ d[i].date[1] = t[1] /\ ~DateNotAfter(d[i].date, t)}

\* C25: a YTD summary that is present has a total downtime and a failure
\* count of at most those of the yearly row of the current year, equal to
\* them exactly when the log has no record of the current year dated after
\* today.
C25_YtdWithinYear ==
    (summary.fn = "build_comprehensive_summary" /\ YtdOf(summary.res) # <<>>) =>
        LET ytd == summary.res.ytd
            yearly == summary.res.yearly
            rows == {j \in 1..Len(yearly) : yearly[j].Year = today[1]}
        IN  /\ Cardinality(rows) = 1
            /\ \A j \in rows :
                  /\ ytd.total_downtime_minutes <= yearly[j].Total_Downtime_Minutes
                  /\ ytd.failure_count <= yearly[j].Failure_Count
                  /\ ytd.total_downtime_minutes = yearly[j].Total_Downtime_Minutes
                        <=> FutureIn(df, today) = {}
                  /\ ytd.failure_count = yearly[j].Failure_Count
                        <=> FutureIn(df, today) = {}

\* on 1 March 2024 the log holds a record of February and one of 30 April
\* 2024: the yearly row counts both, YTD the first
C25_Witness ==
    /\ summary.fn = "build_comprehensive_summary"
    /\ today = <<2024, 3, 1>>
    /\ YtdOf(summary.res) # <<>>
    /\ FutureIn(df, today) # {}
    /\ summary.res.ytd.total_downtime_minutes = 60
    /\ Len(summary.res.yearly) = 1
    /\ summary.res.yearly[1].Total_Downtime_Minutes = 40060

----------------------------------------------------------------------------
(* Properties of the log under the handlers (Spec) *)

RejectMsgs == {MsgDate, MsgStart, MsgEnd, MsgType, MsgChrono, MsgWindow, MsgDup}
SaveFailedMsgs == {MsgSaveFailedAdd, MsgSaveFailedEdit, MsgSaveFailedDelete}

NoOverlap(d) ==
    \A i \in 1..Len(d), j \in 1..Len(d) :
        (i < j /\ d[i].date = d[j].date)
            => ~(d[i].start < d[j].end /\ d[j].start < d[i].end)

\* C1: no two records of the log that carry the same date have intersecting
\* [start_time, end_time) intervals, after any sequence of successful
\* submissions, updates and deletions from the empty log.
C1_NoOverlap == NoOverlap(df) /\ NoOverlap(file)

\* C2: an edit is accepted exactly when its input breaks none of the four
\* rules, the overlap rule taken against every other record of the log.
C2_EditValidation ==
    (lastOp = "edit" /\ lastMsg \notin SaveFailedMsgs)
        => ((lastMsg = MsgUpdated) <=> (lastFailed = {}))

CheckOrder == <<"required", "chronology", "window", "overlap">>
ReasonsOf(check) ==
    CASE check = "required" -> {MsgDate, MsgStart, MsgEnd, MsgType}
      [] check = "chronology" -> {MsgChrono}
      [] check = "window" -> {MsgWindow}
      [] check = "overlap" -> {MsgDup}
FirstOf(failed) ==
    CheckOrder[CHOOSE k \in 1..4 :
                  /\ CheckOrder[k] \in failed
                  /\ \A j \in 1..(k - 1) : CheckOrder[j] \notin failed]

\* C4: the checks are applied in the order required fields, chronology,
\* window, overlap: a submission that breaks several rules is answered with
\* the reason of the earliest one, and on the Log Outage form every rejected
\* submission is answered with the reason of the earliest rule it breaks.
C4_FirstFailureWins ==
    /\ (lastOp \in {"add", "edit"} /\ Cardinality(lastFailed) >= 2)
          => lastMsg \in ReasonsOf(FirstOf(lastFailed))
    /\ (lastOp = "add" /\ lastFailed # {})
          => lastMsg \in ReasonsOf(FirstOf(lastFailed))

C4_Witness ==
    /\ lastOp = "add"
    /\ {"window", "overlap"} \subseteq lastFailed
    /\ lastMsg = MsgWindow

\* C6: a submission rejected by a validation check leaves the log, in memory
\* and as persisted, as it was.
C6_RejectionNoSideEffect ==
    [][(lastOp' \in {"add", "edit"} /\ lastMsg' \in RejectMsgs)
          => (df' = df /\ file' = file)]_vars

C6_Witness ==
    /\ lastOp = "edit"
    /\ lastMsg = MsgWindow
    /\ Len(df) = 2

DurationsDerived(d) ==
    \A i \in 1..Len(d) : d[i].mins = d[i].end - d[i].start /\ d[i].mins >= 1

\* C7: every record of the log has duration_minutes equal to its end_time
\* minus its start_time in minutes, hence at least 1.
C7_DurationDerived == DurationsDerived(df) /\ DurationsDerived(file)

C7_Witness ==
    /\ lastOp = "edit"
    /\ lastMsg = MsgUpdated
    /\ \E i \in 1..Len(df) : df[i].mins = 1050
    /\ \E i \in 1..Len(df) : df[i].mins = 330

InWindow(d) ==
    \A i \in 1..Len(d) :
        /\ d[i].end > d[i].start
        /\ 270 <= d[i].start /\ d[i].start <= 1320
        /\ 270 <= d[i].end /\ d[i].end <= 1320

\* C8: every record of the log has end_time > start_time, both inside
\* [04:30, 22:00].
C8_RecordsInWindow == InWindow(df) /\ InWindow(file)

C8_Witness ==
    /\ lastOp = "delete"
    /\ lastMsg = MsgDeleted
    /\ \E i \in 1..Len(df) : df[i].start = 270 /\ df[i].end = 1320

----------------------------------------------------------------------------
(* Properties of the cache of load_data (SpecLoad) *)

\* two logs hold the same records, each as often
SameRecords(a, b) ==
    /\ Len(a) = Len(b)
    /\ \A k \in 1..Len(a) :
          Cardinality({i \in 1..Len(a) : a[i] = a[k]})
              = Cardinality({i \in 1..Len(b) : b[i] = a[k]})

\* C21: after every successful save the next load_data returns the records
\* that were saved, not those cached before the save, also within the 600
\* seconds the cache keeps an entry; so the log a page renders after an
\* operation is the saved one.
C21_LoadSeesSave ==
    /\ SameRecords(cached_load_data(loaded, file), file)
    /\ SameRecords(df, file)

\* an edit has been saved inside the life of the cache entry; the entry holds
\* the saved records, newest first
C21_Witness ==
    /\ lastOp = "edit"
    /\ lastMsg = MsgUpdated
    /\ loaded.hit
    /\ Len(loaded.res) = 2
    /\ SameRecords(loaded.res, file)
    /\ loaded.res # file

----------------------------------------------------------------------------
(* Properties of the Edit Records page under the filters (SpecEdit) *)

\* the records shown under the filters (0 for "All"), in the order of the log
View(d, yf, mf) ==
    SelectSeq(d, LAMBDA r : (yf = 0 \/ r.date[1] = yf) /\ (mf = 0 \/ r.date[2] = mf))
\* how often a record occurs in a log
Count(d, r) == Cardinality({k \in 1..Len(d) : d[k] = r})
\* the log b holds the records of the log a, once less the record old and
\* once more each record of the set new
Replaced(a, b, old, new) ==
    \A r \in {a[k] : k \in 1..Len(a)} \cup {b[k] : k \in 1..Len(b)} \cup new :
        Count(b, r) = Count(a, r) - (IF r = old THEN 1 ELSE 0)
                                  + (IF r \in new THEN 1 ELSE 0)

\* C19: a confirmed Delete of the record at row index i of the view (filtered
\* by year and month or not) removes from the log exactly that record and
\* leaves every other record with all its fields; the log is 1 shorter.
C19_DeleteFrame ==
    [][(lastOp' = "delete" /\ lastMsg' = MsgDeleted) =>
          LET view == View(df, inp'.year_filter, inp'.month_filter)
              sel == view[inp'.record_index + 1]
          IN  /\ inp'.record_index < Len(view)
              /\ Len(df') = Len(df) - 1
              /\ Replaced(df, df', sel, {})
              /\ Len(file') = Len(df) - 1
              /\ Replaced(df, file', sel, {})]_vars

\* with the year filter at 2024 row 0 of the view is the second row of the
\* log; it has been deleted and the record of 2025 is left
C19_Witness ==
    /\ lastOp = "delete"
    /\ lastMsg = MsgDeleted
    /\ inp.year_filter = 2024
    /\ inp.record_index = 0
    /\ Len(df) = 1
    /\ df[1].date = <<2025, 3, 1>>

\* C20: a successful Edit of the record at row index i of the view changes
\* that record of the full log into the submitted one and leaves every other
\* record and the size of the log as they were, whichever filters are active.
C20_EditFrame ==
    [][(lastOp' = "edit" /\ lastMsg' = MsgUpdated) =>
          LET view == View(df, inp'.year_filter, inp'.month_filter)
              sel == view[inp'.record_index + 1]
              new == [date  |-> inp'.date,
                      start |-> inp'.start,
                      end   |-> inp'.end,
                      mins  |-> inp'.end - inp'.start,
                      hhmm  |-> <<(inp'.end - inp'.start) \div 60,
                                  (inp'.end - inp'.start) % 60>>,
                      ftype |-> inp'.ftype]
          IN  /\ inp'.record_index < Len(view)
              /\ Len(df') = Len(df)
              /\ Replaced(df, df', sel, {new})
              /\ Len(file') = Len(df)
              /\ Replaced(df, file', sel, {new})]_vars

\* with the month filter at February row 0 of the view is the second row of
\* the log; it has been edited and the record of March 2025 is as it was
C20_Witness ==
    /\ lastOp = "edit"
    /\ lastMsg = MsgUpdated
    /\ inp.month_filter = 2
    /\ inp.year_filter = 0
    /\ inp.record_index = 0
    /\ Len(df) = 2
    /\ df[1] = NewRecord(<<2025, 3, 1>>, 270, 600, "Power")
    /\ df[2] = NewRecord(<<2024, 2, 15>>, 600, 1320, "Power")
    /\ inp.start = 600
    /\ inp.end = 1320

====
